---------------------------- MODULE Spec2Model ----------------------------
(***************************************************************************)
(* Access-control terminal (ESP32): ST7735 display driver, RC522 credential *)
(* callback, Firebase sign-in / log upload, start-up sequence of app_main.  *)
(*                                                                          *)
(* Two tasks run the code: "main" (app_main) and "rc522" (the scanner task  *)
(* created by rc522_start, which invokes on_picc_state_changed).  Every     *)
(* function is cut into steps at its calls on shared state (the data/       *)
(* command line, the SPI bus, the static pixel buffer, the token, the       *)
(* response accumulator), and each task has its own copy of the locals.     *)
(***************************************************************************)
EXTENDS Integers, Sequences, FiniteSets, TLC

(* ------------------------------------------------------------------------ *)
(* Program constants                                                         *)
(* ------------------------------------------------------------------------ *)
LCD_H_RES == 128
LCD_V_RES == 160
BUF_HEIGHT == 40
RGB565_GRAY == 33808
RGB565_GREEN == 2016
RGB565_RED == 63488
max_pixels_per_transfer == 1024
RESPONSE_BUFFER_SIZE == 4096
ID_TOKEN_SIZE == 2048
DWELL_MS == 3000
retry_count == 10

COLOR_WAITING == "COLOR_WAITING"
COLOR_CARD == "COLOR_CARD"
COLOR_CHIP == "COLOR_CHIP"

CARD_UID == <<153, 182, 179, 2>>
CHIP_UID == <<37, 15, 197, 1>>

ESP_OK == "ESP_OK"
ESP_FAIL == "ESP_FAIL"
ESP_ERR_NO_MEM == "ESP_ERR_NO_MEM"

Tasks == {"main", "rc522"}

(* ------------------------------------------------------------------------ *)
(* Inputs the environment supplies                                           *)
(* ------------------------------------------------------------------------ *)
\* colours handed to fill_screen when it is exercised on its own
FillColors == {0, 1, 255, 256, 4660, 65535, RGB565_GRAY, RGB565_GREEN, RGB565_RED}

\* credentials the reader presents: the two allow-listed ones, 4-byte ones that
\* differ from them in one byte or in all, and longer ones that start like them
Credentials ==
    { CARD_UID, CHIP_UID,
      <<153, 182, 179, 3>>, <<37, 182, 179, 2>>, <<1, 2, 3, 4>>,
      CARD_UID \o <<0, 0, 0>>, <<4, 37, 15, 197, 1, 128, 9, 7, 6, 5>> }

PiccStates == {"IDLE", "ACTIVE", "HALT"}

Events ==
    [state : {"ACTIVE"}, uid : Credentials]
        \cup [state : PiccStates \ {"ACTIVE"}, uid : {CARD_UID, <<1, 2, 3, 4>>}]

\* answers of the sign-in endpoint: a status and a body, the body being JSON with a
\* string idToken, JSON without one, JSON whose idToken is a number, or no JSON
Bodies ==
    {[kind |-> "idToken", len |-> 1300, tok |-> [src |-> "jwtA", len |-> 900]],
     [kind |-> "idToken", len |-> 5000, tok |-> [src |-> "jwtA", len |-> 900]],
     [kind |-> "idToken", len |-> 400, tok |-> [src |-> "", len |-> 0]],
     [kind |-> "noIdToken", len |-> 300, tok |-> [src |-> "", len |-> 0]],
     [kind |-> "idTokenNotString", len |-> 300, tok |-> [src |-> "", len |-> 0]],
     [kind |-> "notJSON", len |-> 200, tok |-> [src |-> "", len |-> 0]],
     [kind |-> "notJSON", len |-> 0, tok |-> [src |-> "", len |-> 0]]}

HttpStatuses == {200, 400}

Responses == [status : HttpStatuses, body : Bodies]

\* sizes of the pieces in which the transport hands the body to the event handler
\* (besides the piece that holds all that is left of the body)
ChunkLens == {512, 4096}

\* how the upload's HTTP exchange ends
UploadOutcomes ==
    [err : {ESP_OK}, status : {200, 401}] \cup [err : {ESP_FAIL}, status : {0}]

VARIABLES
    pc,               \* per task: the statement it is at
    ops, ip, ph,      \* per task: lcd_cmd / lcd_data calls in progress
    fill,             \* per task: locals of fill_screen
    color_buf,        \* static color_buf of fill_screen (one colour all over)
    dc, rst,          \* levels of PIN_NUM_DC and PIN_NUM_RST
    wire,             \* the latest bus transaction and the DC level it saw
    tx,               \* per task: what its current display call has issued
    id_token,         \* static char id_token[2048], as the string it holds
    response_buffer,  \* NULL, or the accepted chunks in buffer order
    response_len,     \* static int response_len
    http,             \* the HTTP exchange of firebase_sign_in, as the transport sees it
    si,               \* locals and return value of firebase_sign_in
    wifi,             \* wifi_event_group and whether the driver was started
    clock_set,        \* whether SNTP has set the system clock
    tsync,            \* locals of wait_for_time_sync, its checks of the clock, its log
    ev,               \* the event the scanner task last handed to the callback
    cb,               \* locals of on_picc_state_changed
    evlog,            \* what the callback has done for ev, in order
    up                \* the latest call of send_rfid_log_to_firebase

lcdVars == <<ops, ip, ph, fill, color_buf, dc, rst, wire, tx>>
fbVars == <<id_token, response_buffer, response_len, http, si>>
bootVars == <<wifi, clock_set, tsync>>
cbVars == <<ev, cb, evlog, up>>
vars == <<pc, lcdVars, fbVars, bootVars, cbVars>>

(* ------------------------------------------------------------------------ *)
(* lcd_display.c                                                             *)
(* ------------------------------------------------------------------------ *)
\* mutant: the value is kept as the int the expression yields, not cut to uint16_t
color_swapped_int(color) == (color \div 256) + (color * 256)

\* uint16_t color_swapped = (color >> 8) | (color << 8);
color_swapped(color) == ((color \div 256) + (color * 256)) % 65536

card_colors(c) ==
    CASE c = COLOR_WAITING -> RGB565_GRAY
      [] c = COLOR_CARD -> RGB565_GREEN
      [] c = COLOR_CHIP -> RGB565_RED

get_color_for_card(c) == card_colors(c)

Cmd(b) == [k |-> "cmd", v |-> <<b>>]
Data(bytes) == [k |-> "data", v |-> bytes]
Rst(level) == [k |-> "rst", v |-> <<level>>]
Delay(ms) == [k |-> "delay", v |-> <<ms>>]

\* mutant: sleep-out is sent before the software reset
st7735_init_sleep_out_first ==
    << Rst(0), Delay(100), Rst(1), Delay(100),
       Cmd(17), Delay(150), Cmd(1), Delay(150),
       Cmd(177), Data(<<5, 60, 60>>),
       Cmd(182), Data(<<3>>),
       Cmd(58), Data(<<85>>),
       Cmd(42), Data(<<0, 0, 0, 0>>),
       Cmd(43), Data(<<0, 0, 0, 0>>),
       Cmd(19), Cmd(41) >>

\* the straight-line body of st7735_init
st7735_init ==
    << Rst(0), Delay(100), Rst(1), Delay(100),
       Cmd(1), Delay(150), Cmd(17), Delay(150),
       Cmd(177), Data(<<5, 60, 60>>),
       Cmd(182), Data(<<3>>),
       Cmd(58), Data(<<85>>),
       Cmd(42), Data(<<0, 0, 0, 0>>),
       Cmd(43), Data(<<0, 0, 0, 0>>),
       Cmd(19), Cmd(41) >>

\* (uint8_t) conversions of the window bounds
U8(x) == x % 256

draw_height(y) == IF y + BUF_HEIGHT <= LCD_V_RES THEN BUF_HEIGHT ELSE LCD_V_RES - y

\* mutant: the row window ends at y + h, one row too far
BandHeader_end_exclusive(y, h) ==
    << Cmd(42), Data(<<0, 0, 0, U8(LCD_H_RES - 1)>>),
       Cmd(43), Data(<<U8(y \div 256), U8(y), U8((y + h) \div 256), U8(y + h)>>),
       Cmd(44) >>

\* column window, row window and memory-write command of one band
BandHeader(y, h) ==
    << Cmd(42), Data(<<0, 0, 0, U8(LCD_H_RES - 1)>>),
       Cmd(43), Data(<<U8(y \div 256), U8(y), U8((y + h - 1) \div 256), U8(y + h - 1)>>),
       Cmd(44) >>

\* mutant: the run is not capped at max_pixels_per_transfer
chunk_size_uncapped(pixels_to_send, sent) == pixels_to_send - sent

chunk_size(pixels_to_send, sent) ==
    IF pixels_to_send - sent > max_pixels_per_transfer
    THEN max_pixels_per_transfer
    ELSE pixels_to_send - sent

NoFill == [at |-> "none", color |-> 0, y |-> 0, h |-> 0, sent |-> 0, pixels_to_send |-> 0]

InOps(t) == ip[t] <= Len(ops[t])
CurOp(t) == ops[t][ip[t]]

\* gpio_set_level(PIN_NUM_DC, ..) at the head of lcd_cmd and lcd_data
LcdSetDC(t) ==
    /\ InOps(t) /\ ph[t] = 0 /\ CurOp(t).k \in {"cmd", "data"}
    /\ dc' = (IF CurOp(t).k = "cmd" THEN 0 ELSE 1)
    /\ ph' = [ph EXCEPT ![t] = 1]
    /\ UNCHANGED <<pc, ops, ip, fill, color_buf, rst, wire, tx, fbVars, bootVars, cbVars>>

\* spi_device_transmit of lcd_cmd and lcd_data
LcdTransmit(t) ==
    /\ InOps(t) /\ ph[t] = 1
    /\ wire' = [k |-> CurOp(t).k, dc |-> dc, v |-> CurOp(t).v]
    /\ tx' = [tx EXCEPT ![t] = Append(@, [k |-> CurOp(t).k, v |-> CurOp(t).v,
                                          off |-> 0, n |-> Len(CurOp(t).v)])]
    /\ ip' = [ip EXCEPT ![t] = @ + 1]
    /\ ph' = [ph EXCEPT ![t] = 0]
    /\ UNCHANGED <<pc, ops, fill, color_buf, dc, rst, fbVars, bootVars, cbVars>>

\* gpio_set_level(PIN_NUM_RST, ..) of st7735_init
LcdSetRst(t) ==
    /\ InOps(t) /\ CurOp(t).k = "rst"
    /\ rst' = CurOp(t).v[1]
    /\ tx' = [tx EXCEPT ![t] = Append(@, [k |-> "rst", v |-> CurOp(t).v, off |-> 0, n |-> 0])]
    /\ ip' = [ip EXCEPT ![t] = @ + 1]
    /\ UNCHANGED <<pc, ops, ph, fill, color_buf, dc, wire, fbVars, bootVars, cbVars>>

\* vTaskDelay of st7735_init
LcdDelay(t) ==
    /\ InOps(t) /\ CurOp(t).k = "delay"
    /\ tx' = [tx EXCEPT ![t] = Append(@, [k |-> "delay", v |-> CurOp(t).v, off |-> 0, n |-> 0])]
    /\ ip' = [ip EXCEPT ![t] = @ + 1]
    /\ UNCHANGED <<pc, ops, ph, fill, color_buf, dc, rst, wire, fbVars, bootVars, cbVars>>

\* the state of task t's locals on entry to fill_screen(color)
FillEntry(color) ==
    [at |-> "buf", color |-> color, y |-> 0, h |-> 0, sent |-> 0, pixels_to_send |-> 0]

\* color_swapped and the loop that fills color_buf; then y = 0
FillBuf(t) ==
    /\ fill[t].at = "buf"
    /\ color_buf' = color_swapped(fill[t].color)
    /\ fill' = [fill EXCEPT ![t].at = "band", ![t].y = 0]
    /\ UNCHANGED <<pc, ops, ip, ph, dc, rst, wire, tx, fbVars, bootVars, cbVars>>

\* for (y ...; y < LCD_V_RES; ...): draw_height, then the window commands
FillBand(t) ==
    /\ fill[t].at = "band"
    /\ IF fill[t].y < LCD_V_RES
       THEN /\ fill' = [fill EXCEPT ![t].at = "hdr", ![t].h = draw_height(fill[t].y)]
            /\ ops' = [ops EXCEPT ![t] = BandHeader(fill[t].y, draw_height(fill[t].y))]
            /\ ip' = [ip EXCEPT ![t] = 1]
       ELSE /\ fill' = [fill EXCEPT ![t].at = "ret"]
            /\ UNCHANGED <<ops, ip>>
    /\ UNCHANGED <<pc, ph, color_buf, dc, rst, wire, tx, fbVars, bootVars, cbVars>>

\* gpio_set_level(PIN_NUM_DC, 1); pixels_to_send; sent = 0
FillDataMode(t) ==
    /\ fill[t].at = "hdr" /\ ~InOps(t)
    /\ dc' = 1
    /\ fill' = [fill EXCEPT ![t].at = "chunks", ![t].sent = 0,
                            ![t].pixels_to_send = LCD_H_RES * fill[t].h]
    /\ ops' = [ops EXCEPT ![t] = <<>>]
    /\ ip' = [ip EXCEPT ![t] = 1]
    /\ UNCHANGED <<pc, ph, color_buf, rst, wire, tx, fbVars, bootVars, cbVars>>

\* one turn of while (sent < pixels_to_send)
FillChunk(t) ==
    /\ fill[t].at = "chunks"
    /\ fill[t].sent < fill[t].pixels_to_send
    /\ LET n == chunk_size(fill[t].pixels_to_send, fill[t].sent) IN
        /\ wire' = [k |-> "pix", dc |-> dc, v |-> <<color_buf>>]
        /\ tx' = [tx EXCEPT ![t] = Append(@, [k |-> "pix", v |-> <<>>,
                                              off |-> fill[t].sent, n |-> n])]
        /\ fill' = [fill EXCEPT ![t].sent = @ + n]
    /\ UNCHANGED <<pc, ops, ip, ph, color_buf, dc, rst, fbVars, bootVars, cbVars>>

\* the while loop ends; y += BUF_HEIGHT
FillNextBand(t) ==
    /\ fill[t].at = "chunks"
    /\ ~(fill[t].sent < fill[t].pixels_to_send)
    /\ fill' = [fill EXCEPT ![t].at = "band", ![t].y = @ + BUF_HEIGHT]
    /\ UNCHANGED <<pc, ops, ip, ph, color_buf, dc, rst, wire, tx, fbVars, bootVars, cbVars>>

FillStep(t) ==
    \/ FillBuf(t)
    \/ FillBand(t)
    \/ FillDataMode(t)
    \/ FillChunk(t)
    \/ FillNextBand(t)

LcdStep(t) ==
    \/ LcdSetDC(t)
    \/ LcdTransmit(t)
    \/ LcdSetRst(t)
    \/ LcdDelay(t)

(* ------------------------------------------------------------------------ *)
(* firebase.c                                                                *)
(* ------------------------------------------------------------------------ *)
\* a C string: the first len bytes of the text named src
Str(src, len) == [src |-> src, len |-> len]
EmptyStr == Str("", 0)
strlen(s) == s.len

\* mutant: the token is copied with strcpy
strncpy_token_unbounded(valuestring) == valuestring

\* strncpy(dst, src, sizeof(id_token) - 1); dst[sizeof(id_token) - 1] = '\0';
strncpy_token(valuestring) ==
    IF strlen(valuestring) > ID_TOKEN_SIZE - 1
    THEN Str(valuestring.src, ID_TOKEN_SIZE - 1)
    ELSE valuestring

NULL == "NULL"

\* bytes held by the accepted chunks
RECURSIVE SegsLen(_)
SegsLen(segs) == IF segs = <<>> THEN 0 ELSE Head(segs).n + SegsLen(Tail(segs))

\* memcpy(response_buffer + response_len, evt->data, evt->data_len): the buffer then
\* holds the bytes off .. off+n-1 of the body after what it held
memcpy_chunk(segs, off, n) ==
    IF segs # <<>> /\ segs[Len(segs)].off + segs[Len(segs)].n = off
    THEN [segs EXCEPT ![Len(segs)].n = @ + n]
    ELSE Append(segs, [off |-> off, n |-> n])

\* mutant: only the length so far is tested, not the chunk's
handler_fits_len_only(len, data_len) == len < RESPONSE_BUFFER_SIZE

\* mutant: a chunk that fills the buffer to its very end is taken
handler_fits_inclusive(len, data_len) == len + data_len <= RESPONSE_BUFFER_SIZE

\* if (response_len + evt->data_len < RESPONSE_BUFFER_SIZE)
handler_fits(len, data_len) == len + data_len < RESPONSE_BUFFER_SIZE

NoHttp == [active |-> FALSE, status |-> 0, body |-> [kind |-> "notJSON", len |-> 0, tok |-> EmptyStr],
           recvd |-> 0, overflow |-> FALSE, wrote_to |-> 0]
NoSignIn == [err |-> "none", ret |-> "none", parsed |-> "none"]

\* firebase_sign_in: calloc of the response buffer, response_len = 0
SiAlloc ==
    /\ pc["main"] = "sign_in"
    /\ \E ok \in BOOLEAN :
          IF ok
          THEN /\ response_buffer' = <<>>
               /\ pc' = [pc EXCEPT !["main"] = "si_request"]
               /\ si' = NoSignIn
          ELSE /\ response_buffer' = NULL
               /\ pc' = [pc EXCEPT !["main"] = "si_ret"]
               /\ si' = [NoSignIn EXCEPT !.ret = ESP_ERR_NO_MEM]
    /\ response_len' = 0
    /\ http' = NoHttp
    /\ UNCHANGED <<id_token, lcdVars, bootVars, cbVars>>

\* esp_http_client_perform starts: the request goes out, the server answers
SiRequest ==
    /\ pc["main"] = "si_request"
    /\ \E r \in Responses :
          http' = [active |-> TRUE, status |-> r.status, body |-> r.body,
                   recvd |-> 0, overflow |-> FALSE, wrote_to |-> 0]
    /\ pc' = [pc EXCEPT !["main"] = "si_perform"]
    /\ UNCHANGED <<id_token, response_buffer, response_len, si, lcdVars, bootVars, cbVars>>

\* _http_event_handler, HTTP_EVENT_ON_DATA with data_len bytes of the body
http_event_handler(data_len) ==
    /\ pc["main"] = "si_perform"
    /\ data_len > 0
    /\ http.recvd + data_len <= http.body.len
    /\ IF handler_fits(response_len, data_len)
       THEN /\ response_buffer' = memcpy_chunk(response_buffer, http.recvd, data_len)
            /\ response_len' = response_len + data_len
            /\ http' = [http EXCEPT !.recvd = @ + data_len,
                                    !.wrote_to = response_len + data_len]
       ELSE /\ http' = [http EXCEPT !.recvd = @ + data_len, !.overflow = TRUE]
            /\ UNCHANGED <<response_buffer, response_len>>
    /\ UNCHANGED <<pc, id_token, si, lcdVars, bootVars, cbVars>>

\* esp_http_client_perform returns: ESP_OK once the whole response has come
SiPerformReturn ==
    /\ pc["main"] = "si_perform"
    /\ \E err \in {ESP_OK, ESP_FAIL} :
          /\ err = ESP_OK => http.recvd = http.body.len
          /\ si' = [si EXCEPT !.err = err]
    /\ http' = [http EXCEPT !.active = FALSE]
    /\ pc' = [pc EXCEPT !["main"] = "si_parse"]
    /\ UNCHANGED <<id_token, response_buffer, response_len, lcdVars, bootVars, cbVars>>

\* cJSON_Parse(response_buffer): what the accumulated text parses to
cJSON_Parse(segs, body) ==
    IF SegsLen(segs) = body.len THEN body.kind ELSE "notJSON"

\* if (err == ESP_OK) { parse; idToken a string: copy it } else log
SiParse ==
    /\ pc["main"] = "si_parse"
    /\ LET parsed == IF si.err = ESP_OK
                     THEN cJSON_Parse(response_buffer, http.body)
                     ELSE "none" IN
        /\ si' = [si EXCEPT !.parsed = parsed]
        /\ id_token' = IF parsed = "idToken" THEN strncpy_token(http.body.tok) ELSE id_token
    /\ pc' = [pc EXCEPT !["main"] = "si_cleanup"]
    /\ UNCHANGED <<response_buffer, response_len, http, lcdVars, bootVars, cbVars>>

\* value firebase_sign_in returns: return err;
sign_in_result(err) == err

\* mutant: the buffer is freed but pointer and length are left as they are
SiCleanup_stale ==
    /\ pc["main"] = "si_cleanup"
    /\ si' = [si EXCEPT !.ret = sign_in_result(si.err)]
    /\ pc' = [pc EXCEPT !["main"] = "si_ret"]
    /\ UNCHANGED <<response_buffer, response_len, id_token, http, lcdVars, bootVars, cbVars>>

\* cleanup, free(response_buffer), response_buffer = NULL, response_len = 0
SiCleanup ==
    /\ pc["main"] = "si_cleanup"
    /\ response_buffer' = NULL
    /\ response_len' = 0
    /\ si' = [si EXCEPT !.ret = sign_in_result(si.err)]
    /\ pc' = [pc EXCEPT !["main"] = "si_ret"]
    /\ UNCHANGED <<id_token, http, lcdVars, bootVars, cbVars>>

\* mutant: the test is on the array's address, which is never null
token_absent_null_test(tok) == FALSE

\* if (strlen(id_token) == 0)
token_absent(tok) == strlen(tok) = 0

NoUpload == [uid |-> <<>>, timestamp |-> "", token |-> EmptyStr, ret |-> "none",
             net |-> 0, status |-> 0, calls |-> 0]

\* send_rfid_log_to_firebase up to esp_http_client_init: token check, malloc
UploadCall(t) ==
    /\ pc[t] = "cb_upload"
    /\ evlog' = Append(evlog, [k |-> "upload", c |-> 0, s |-> cb.uid_str])
    /\ IF token_absent(id_token)
       THEN /\ up' = [uid |-> cb.uid_str, timestamp |-> cb.timestamp, token |-> id_token,
                      ret |-> ESP_FAIL, net |-> 0, status |-> 0, calls |-> up.calls + 1]
            /\ pc' = [pc EXCEPT ![t] = "cb_ret"]
       ELSE \E mem \in BOOLEAN :
              IF mem
              THEN /\ up' = [uid |-> cb.uid_str, timestamp |-> cb.timestamp,
                             token |-> id_token, ret |-> "pending", net |-> 0,
                             status |-> 0, calls |-> up.calls + 1]
                   /\ pc' = [pc EXCEPT ![t] = "up_perform"]
              ELSE /\ up' = [uid |-> cb.uid_str, timestamp |-> cb.timestamp,
                             token |-> id_token, ret |-> ESP_ERR_NO_MEM, net |-> 0,
                             status |-> 0, calls |-> up.calls + 1]
                   /\ pc' = [pc EXCEPT ![t] = "cb_ret"]
    /\ UNCHANGED <<ev, cb, lcdVars, fbVars, bootVars>>

\* mutant: a failed exchange is performed again
UploadPerform_retry(t) ==
    /\ pc[t] = "up_perform"
    /\ \E r \in UploadOutcomes :
          /\ up' = [up EXCEPT !.ret = r.err, !.status = r.status, !.net = @ + 1]
          /\ pc' = [pc EXCEPT ![t] = IF r.err = ESP_FAIL THEN "up_perform" ELSE "cb_ret"]
    /\ UNCHANGED <<ev, cb, evlog, lcdVars, fbVars, bootVars>>

\* mutant: a rejected upload throws the token away
UploadPerform_drop_token(t) ==
    /\ pc[t] = "up_perform"
    /\ \E r \in UploadOutcomes :
          /\ up' = [up EXCEPT !.ret = r.err, !.status = r.status, !.net = @ + 1]
          /\ id_token' = IF r.status = 401 THEN EmptyStr ELSE id_token
    /\ pc' = [pc EXCEPT ![t] = "cb_ret"]
    /\ UNCHANGED <<ev, cb, evlog, lcdVars, response_buffer, response_len, http, si, bootVars>>

\* mutant: a status of 400 or more makes the upload return ESP_FAIL
UploadPerform_status_checked(t) ==
    /\ pc[t] = "up_perform"
    /\ \E r \in UploadOutcomes :
          up' = [up EXCEPT !.ret = IF r.status >= 400 THEN ESP_FAIL ELSE r.err,
                           !.status = r.status, !.net = @ + 1]
    /\ pc' = [pc EXCEPT ![t] = "cb_ret"]
    /\ UNCHANGED <<ev, cb, evlog, lcdVars, fbVars, bootVars>>

\* esp_http_client_perform of the upload, cleanup, return err
UploadPerform(t) ==
    /\ pc[t] = "up_perform"
    /\ \E r \in UploadOutcomes :
          up' = [up EXCEPT !.ret = r.err, !.status = r.status, !.net = @ + 1]
    /\ pc' = [pc EXCEPT ![t] = "cb_ret"]
    /\ UNCHANGED <<ev, cb, evlog, lcdVars, fbVars, bootVars>>

(* ------------------------------------------------------------------------ *)
(* rfid.c                                                                    *)
(* ------------------------------------------------------------------------ *)
RECURSIVE compare_from(_, _, _, _)
compare_from(uid1, uid2, i, size) ==
    IF i > size THEN TRUE
    ELSE IF uid1[i] # uid2[i] THEN FALSE
    ELSE compare_from(uid1, uid2, i + 1, size)

\* mutant: the loop stops one byte early
compare_uid_short(uid1, uid2, size) == compare_from(uid1, uid2, 1, size - 1)

\* for (i = 0; i < size; i++) if (uid1[i] != uid2[i]) return false; return true;
compare_uid(uid1, uid2, size) == compare_from(uid1, uid2, 1, size)

HexDigits == <<"0", "1", "2", "3", "4", "5", "6", "7", "8", "9", "A", "B", "C", "D", "E", "F">>
HexByte(b) == <<HexDigits[(b \div 16) + 1], HexDigits[(b % 16) + 1]>>

\* rc522_picc_uid_to_str: the bytes as two hex digits each, separated by spaces
RECURSIVE rc522_picc_uid_to_str(_)
rc522_picc_uid_to_str(value) ==
    IF value = <<>> THEN <<>>
    ELSE IF Len(value) = 1 THEN HexByte(value[1])
    ELSE HexByte(value[1]) \o <<" ">> \o rc522_picc_uid_to_str(Tail(value))

\* mutant: the card is recognised by its first byte
class_color_first_byte(value) ==
    IF value[1] = CARD_UID[1] THEN COLOR_CARD
    ELSE IF compare_uid(value, CHIP_UID, 4) THEN COLOR_CHIP
    ELSE "none"

\* the colour the callback shows for a 4-byte uid, "none" when it shows none
class_color(value) ==
    IF compare_uid(value, CARD_UID, 4) THEN COLOR_CARD
    ELSE IF compare_uid(value, CHIP_UID, 4) THEN COLOR_CHIP
    ELSE "none"

\* mutant: only idle credentials are skipped
picc_is_active_not_idle(state) == state # "IDLE"

\* if (picc->state != RC522_PICC_STATE_ACTIVE) return;
picc_is_active(state) == state = "ACTIVE"

\* mutant: the display is reset to a class colour
reset_color_card == COLOR_CARD

\* fill_screen(get_color_for_card(COLOR_WAITING)); // Reset display
reset_color == COLOR_WAITING

\* strftime of the local time: the epoch until SNTP has set the clock
strftime_now == IF clock_set THEN "2026-01-01T12:00:00Z" ELSE "1970-01-01T02:00:00Z"

NoEvent == [state |-> "none", uid |-> <<>>]
NoCb == [uid_str |-> <<>>, timestamp |-> ""]

\* mutant: the callback is called for a new event while it is still running
Deliver_reentrant(e) ==
    /\ pc["rc522"] # "off"
    /\ ev' = e
    /\ pc' = [pc EXCEPT !["rc522"] = "cb"]
    /\ UNCHANGED <<cb, evlog, up, lcdVars, fbVars, bootVars>>

\* the scanner task's event loop calls on_picc_state_changed with an event
Deliver(e) ==
    /\ pc["rc522"] = "idle"
    /\ ev' = e
    /\ pc' = [pc EXCEPT !["rc522"] = "cb"]
    /\ UNCHANGED <<cb, evlog, up, lcdVars, fbVars, bootVars>>

\* the state test and rc522_picc_uid_to_str
CbState ==
    /\ pc["rc522"] = "cb"
    /\ IF picc_is_active(ev.state)
       THEN /\ cb' = [cb EXCEPT !.uid_str = rc522_picc_uid_to_str(ev.uid)]
            /\ pc' = [pc EXCEPT !["rc522"] = "cb_classify"]
       ELSE /\ cb' = cb
            /\ pc' = [pc EXCEPT !["rc522"] = "cb_ret"]
    /\ UNCHANGED <<ev, evlog, up, lcdVars, fbVars, bootVars>>

\* mutant: dwell and reset are outside the length test
CbClassify_dwell_always ==
    /\ pc["rc522"] = "cb_classify"
    /\ IF Len(ev.uid) = 4 /\ class_color(ev.uid) # "none"
       THEN /\ fill' = [fill EXCEPT !["rc522"] =
                           FillEntry(get_color_for_card(class_color(ev.uid)))]
            /\ tx' = [tx EXCEPT !["rc522"] = <<>>]
            /\ evlog' = Append(evlog, [k |-> "fill",
                                       c |-> get_color_for_card(class_color(ev.uid)),
                                       s |-> <<>>])
            /\ pc' = [pc EXCEPT !["rc522"] = "cb_fill_class"]
       ELSE /\ pc' = [pc EXCEPT !["rc522"] = "cb_dwell"]
            /\ UNCHANGED <<fill, tx, evlog>>
    /\ UNCHANGED <<ev, cb, up, ops, ip, ph, color_buf, dc, rst, wire, fbVars, bootVars>>

\* if (picc->uid.length == 4) { if .. else if .. }: the class colour's fill starts
CbClassify ==
    /\ pc["rc522"] = "cb_classify"
    /\ IF Len(ev.uid) = 4
       THEN IF class_color(ev.uid) # "none"
            THEN /\ fill' = [fill EXCEPT !["rc522"] =
                                FillEntry(get_color_for_card(class_color(ev.uid)))]
                 /\ tx' = [tx EXCEPT !["rc522"] = <<>>]
                 /\ evlog' = Append(evlog, [k |-> "fill",
                                            c |-> get_color_for_card(class_color(ev.uid)),
                                            s |-> <<>>])
                 /\ pc' = [pc EXCEPT !["rc522"] = "cb_fill_class"]
            ELSE /\ pc' = [pc EXCEPT !["rc522"] = "cb_dwell"]
                 /\ UNCHANGED <<fill, tx, evlog>>
       ELSE /\ pc' = [pc EXCEPT !["rc522"] = "cb_time"]
            /\ UNCHANGED <<fill, tx, evlog>>
    /\ UNCHANGED <<ev, cb, up, ops, ip, ph, color_buf, dc, rst, wire, fbVars, bootVars>>

\* vTaskDelay(pdMS_TO_TICKS(3000)), then the fill that resets the display starts
CbDwell ==
    /\ pc["rc522"] = "cb_dwell"
    /\ evlog' = evlog \o << [k |-> "dwell", c |-> DWELL_MS, s |-> <<>>],
                            [k |-> "fill", c |-> get_color_for_card(reset_color), s |-> <<>>] >>
    /\ fill' = [fill EXCEPT !["rc522"] = FillEntry(get_color_for_card(reset_color))]
    /\ tx' = [tx EXCEPT !["rc522"] = <<>>]
    /\ pc' = [pc EXCEPT !["rc522"] = "cb_fill_reset"]
    /\ UNCHANGED <<ev, cb, up, ops, ip, ph, color_buf, dc, rst, wire, fbVars, bootVars>>

\* fill_screen returns to the callback
CbFillReturn ==
    /\ pc["rc522"] \in {"cb_fill_class", "cb_fill_reset"}
    /\ fill["rc522"].at = "ret"
    /\ evlog' = Append(evlog, [k |-> "filled", c |-> fill["rc522"].color, s |-> <<>>])
    /\ fill' = [fill EXCEPT !["rc522"] = NoFill]
    /\ pc' = [pc EXCEPT !["rc522"] =
                 IF pc["rc522"] = "cb_fill_class" THEN "cb_dwell" ELSE "cb_time"]
    /\ UNCHANGED <<ev, cb, up, ops, ip, ph, color_buf, dc, rst, wire, tx, fbVars, bootVars>>

\* setenv, tzset, time, localtime_r, strftime
CbTime ==
    /\ pc["rc522"] = "cb_time"
    /\ cb' = [cb EXCEPT !.timestamp = strftime_now]
    /\ pc' = [pc EXCEPT !["rc522"] = "cb_upload"]
    /\ UNCHANGED <<ev, evlog, up, lcdVars, fbVars, bootVars>>

\* on_picc_state_changed has returned; the scanner task polls again
CbReturn ==
    /\ pc["rc522"] = "cb_ret"
    /\ ev' = NoEvent
    /\ cb' = NoCb
    /\ evlog' = <<>>
    /\ up' = NoUpload
    /\ tx' = [tx EXCEPT !["rc522"] = <<>>]
    /\ pc' = [pc EXCEPT !["rc522"] = "idle"]
    /\ UNCHANGED <<ops, ip, ph, fill, color_buf, dc, rst, wire, fbVars, bootVars>>

(* ------------------------------------------------------------------------ *)
(* wifi.c (the parts app_main waits on)                                      *)
(* ------------------------------------------------------------------------ *)
\* event_handler, IP_EVENT_STA_GOT_IP: xEventGroupSetBits(WIFI_CONNECTED_BIT)
WifiGotIp ==
    /\ wifi.started
    /\ ~wifi.connected_bit
    /\ wifi' = [wifi EXCEPT !.connected_bit = TRUE]
    /\ UNCHANGED <<pc, lcdVars, fbVars, clock_set, tsync, cbVars>>

(* ------------------------------------------------------------------------ *)
(* main.c                                                                    *)
(* ------------------------------------------------------------------------ *)
\* SNTP, once initialized, sets the clock at some time
SntpSync ==
    /\ tsync.sntp
    /\ ~clock_set
    /\ clock_set' = TRUE
    /\ UNCHANGED <<pc, lcdVars, fbVars, wifi, tsync, cbVars>>

\* lcd_init has run st7735_init to its end; srand, nvs_flash_init, wifi_init_sta
MainWifiInit ==
    /\ pc["main"] = "lcd_init"
    /\ ~InOps("main")
    /\ ops' = [ops EXCEPT !["main"] = <<>>]
    /\ ip' = [ip EXCEPT !["main"] = 1]
    /\ wifi' = [wifi EXCEPT !.started = TRUE]
    /\ pc' = [pc EXCEPT !["main"] = "wifi_wait"]
    /\ UNCHANGED <<ph, fill, color_buf, dc, rst, wire, tx, fbVars, clock_set, tsync, cbVars>>

\* xEventGroupWaitBits(.., WIFI_CONNECTED_BIT, .., portMAX_DELAY) returns
MainWifiWait ==
    /\ pc["main"] = "wifi_wait"
    /\ wifi.connected_bit
    /\ pc' = [pc EXCEPT !["main"] = "sign_in"]
    /\ UNCHANGED <<lcdVars, fbVars, bootVars, cbVars>>

\* ESP_ERROR_CHECK(firebase_sign_in()); initialize_sntp();
\* (the locals of the call that has returned are gone)
MainSignInCheck ==
    /\ pc["main"] = "si_ret"
    /\ IF si.ret = ESP_OK
       THEN /\ pc' = [pc EXCEPT !["main"] = "time_wait"]
            /\ tsync' = [sntp |-> TRUE, retry |-> 0, tm_set |-> FALSE, checks |-> 0,
                        log |-> "none"]
       ELSE /\ pc' = [pc EXCEPT !["main"] = "abort"]
            /\ UNCHANGED tsync
    /\ si' = NoSignIn
    /\ http' = NoHttp
    /\ UNCHANGED <<lcdVars, id_token, response_buffer, response_len, wifi, clock_set, cbVars>>

\* mutant: retry is incremented after the comparison (retry++ < retry_count)
MainTimeLoop_post_increment ==
    /\ pc["main"] = "time_wait"
    /\ IF ~tsync.tm_set
       THEN IF tsync.retry < retry_count
            THEN tsync' = [tsync EXCEPT !.retry = @ + 1, !.tm_set = clock_set,
                                        !.checks = @ + 1]
            ELSE /\ tsync' = [tsync EXCEPT !.retry = @ + 1,
                                           !.log = IF tsync.retry + 1 = retry_count
                                                   THEN "failed" ELSE "synchronized"]
       ELSE tsync' = [tsync EXCEPT !.log = IF tsync.retry = retry_count
                                           THEN "failed" ELSE "synchronized"]
    /\ pc' = [pc EXCEPT !["main"] =
                 IF ~tsync.tm_set /\ tsync.retry < retry_count
                 THEN "time_wait" ELSE "rfid_init"]
    /\ UNCHANGED <<lcdVars, fbVars, wifi, clock_set, cbVars>>

\* while (timeinfo.tm_year < (2016 - 1900) && ++retry < retry_count) { delay; time; }
MainTimeLoop ==
    /\ pc["main"] = "time_wait"
    /\ IF ~tsync.tm_set
       THEN IF tsync.retry + 1 < retry_count
            THEN tsync' = [tsync EXCEPT !.retry = @ + 1, !.tm_set = clock_set,
                                        !.checks = @ + 1]
            ELSE /\ tsync' = [tsync EXCEPT !.retry = @ + 1,
                                           !.log = IF tsync.retry + 1 = retry_count
                                                   THEN "failed" ELSE "synchronized"]
       ELSE tsync' = [tsync EXCEPT !.log = IF tsync.retry = retry_count
                                           THEN "failed" ELSE "synchronized"]
    /\ pc' = [pc EXCEPT !["main"] =
                 IF ~tsync.tm_set /\ tsync.retry + 1 < retry_count
                 THEN "time_wait" ELSE "rfid_init"]
    /\ UNCHANGED <<lcdVars, fbVars, wifi, clock_set, cbVars>>

\* ESP_ERROR_CHECK(rfid_reader_init()): rc522_start; then fill_screen(COLOR_WAITING)
MainRfidInit ==
    /\ pc["main"] = "rfid_init"
    /\ pc' = [pc EXCEPT !["main"] = "fill", !["rc522"] = "idle"]
    /\ fill' = [fill EXCEPT !["main"] = FillEntry(get_color_for_card(COLOR_WAITING))]
    /\ tx' = [tx EXCEPT !["main"] = <<>>]
    /\ tsync' = [tsync EXCEPT !.retry = 0, !.tm_set = FALSE, !.checks = 0, !.log = "none"]
    /\ UNCHANGED <<ops, ip, ph, color_buf, dc, rst, wire, fbVars, wifi, clock_set, cbVars>>

\* fill_screen returns to app_main, which ends
MainFillReturn ==
    /\ pc["main"] = "fill" /\ fill["main"].at = "ret"
    /\ pc' = [pc EXCEPT !["main"] = "done"]
    /\ fill' = [fill EXCEPT !["main"] = NoFill]
    /\ UNCHANGED <<ops, ip, ph, color_buf, dc, rst, wire, tx, fbVars, bootVars, cbVars>>

InitRest ==
    /\ id_token = EmptyStr
    /\ response_buffer = NULL
    /\ response_len = 0
    /\ http = NoHttp
    /\ si = NoSignIn
    /\ wifi = [started |-> FALSE, connected_bit |-> FALSE]
    /\ clock_set = FALSE
    /\ tsync = [sntp |-> FALSE, retry |-> 0, tm_set |-> FALSE, checks |-> 0,
                        log |-> "none"]
    /\ ev = NoEvent
    /\ cb = NoCb
    /\ evlog = <<>>
    /\ up = NoUpload

\* mutant: the reader is started before the display is initialized
Init_reader_first ==
    /\ pc = [t \in Tasks |-> IF t = "main" THEN "lcd_init" ELSE "idle"]
    /\ ops = [t \in Tasks |-> IF t = "main" THEN st7735_init ELSE <<>>]
    /\ ip = [t \in Tasks |-> 1]
    /\ ph = [t \in Tasks |-> 0]
    /\ fill = [t \in Tasks |-> NoFill]
    /\ color_buf = 0
    /\ dc = 0
    /\ rst = 0
    /\ wire = [k |-> "none", dc |-> 0, v |-> <<>>]
    /\ tx = [t \in Tasks |-> <<>>]
    /\ InitRest

\* app_main is entered: lcd_init has set up the bus and starts st7735_init
Init ==
    /\ pc = [t \in Tasks |-> IF t = "main" THEN "lcd_init" ELSE "off"]
    /\ ops = [t \in Tasks |-> IF t = "main" THEN st7735_init ELSE <<>>]
    /\ ip = [t \in Tasks |-> 1]
    /\ ph = [t \in Tasks |-> 0]
    /\ fill = [t \in Tasks |-> NoFill]
    /\ color_buf = 0
    /\ dc = 0
    /\ rst = 0
    /\ wire = [k |-> "none", dc |-> 0, v |-> <<>>]
    /\ tx = [t \in Tasks |-> <<>>]
    /\ InitRest

Next ==
    \/ \E t \in Tasks : LcdStep(t)
    \/ \E t \in Tasks : FillStep(t)
    \/ MainWifiInit
    \/ WifiGotIp
    \/ MainWifiWait
    \/ SiAlloc
    \/ SiRequest
    \/ \E n \in ChunkLens \cup {http.body.len - http.recvd} : http_event_handler(n)
    \/ SiPerformReturn
    \/ SiParse
    \/ SiCleanup
    \/ MainSignInCheck
    \/ SntpSync
    \/ MainTimeLoop
    \/ MainRfidInit
    \/ MainFillReturn
    \/ \E e \in Events : Deliver(e)
    \/ CbState
    \/ CbClassify
    \/ CbFillReturn
    \/ CbDwell
    \/ CbTime
    \/ UploadCall("rc522")
    \/ UploadPerform("rc522")
    \/ CbReturn

Spec == Init /\ [][Next]_vars

(* ------------------------------------------------------------------------ *)
(* app_main from its entry up to the call of rfid_reader_init               *)
(* ------------------------------------------------------------------------ *)
NextBoot ==
    \/ LcdSetDC("main")
    \/ LcdTransmit("main")
    \/ LcdSetRst("main")
    \/ LcdDelay("main")
    \/ MainWifiInit
    \/ WifiGotIp
    \/ MainWifiWait
    \/ SiAlloc
    \/ SiRequest
    \/ \E n \in ChunkLens \cup {http.body.len - http.recvd} : http_event_handler(n)
    \/ SiPerformReturn
    \/ SiParse
    \/ SiCleanup
    \/ MainSignInCheck
    \/ SntpSync
    \/ MainTimeLoop

\* app_main's task is scheduled again and again and vTaskDelay returns; nothing is
\* assumed of SNTP
SpecBoot == Init /\ [][NextBoot]_vars /\ WF_vars(MainTimeLoop)

(* ------------------------------------------------------------------------ *)
(* wifi.c with the station's link: app_main up to the sign-in while the      *)
(* access point can drop the station                                         *)
(* ------------------------------------------------------------------------ *)
\* how many disconnect events are let happen
MaxDisconnects == 3

\* here wifi also holds the station's link ("init", "connecting", "up" = has an IP
\* address) and counts the esp_wifi_connect calls and the disconnect events
InitWifi ==
    /\ pc = [t \in Tasks |-> IF t = "main" THEN "lcd_init" ELSE "off"]
    /\ ops = [t \in Tasks |-> IF t = "main" THEN st7735_init ELSE <<>>]
    /\ ip = [t \in Tasks |-> 1]
    /\ ph = [t \in Tasks |-> 0]
    /\ fill = [t \in Tasks |-> NoFill]
    /\ color_buf = 0
    /\ dc = 0
    /\ rst = 0
    /\ wire = [k |-> "none", dc |-> 0, v |-> <<>>]
    /\ tx = [t \in Tasks |-> <<>>]
    /\ id_token = EmptyStr
    /\ response_buffer = NULL
    /\ response_len = 0
    /\ http = NoHttp
    /\ si = NoSignIn
    /\ wifi = [started |-> FALSE, connected_bit |-> FALSE, link |-> "init",
               connects |-> 0, disconnects |-> 0]
    /\ clock_set = FALSE
    /\ tsync = [sntp |-> FALSE, retry |-> 0, tm_set |-> FALSE, checks |-> 0,
                        log |-> "none"]
    /\ ev = NoEvent
    /\ cb = NoCb
    /\ evlog = <<>>
    /\ up = NoUpload

\* event_handler, WIFI_EVENT_STA_START: esp_wifi_connect()
WifiStaStart ==
    /\ wifi.started
    /\ wifi.link = "init"
    /\ wifi' = [wifi EXCEPT !.link = "connecting", !.connects = @ + 1]
    /\ UNCHANGED <<pc, lcdVars, fbVars, clock_set, tsync, cbVars>>

\* event_handler, IP_EVENT_STA_GOT_IP: xEventGroupSetBits(WIFI_CONNECTED_BIT)
WifiGotIpEvent ==
    /\ wifi.link = "connecting"
    /\ wifi' = [wifi EXCEPT !.link = "up", !.connected_bit = TRUE]
    /\ UNCHANGED <<pc, lcdVars, fbVars, clock_set, tsync, cbVars>>

\* event_handler, WIFI_EVENT_STA_DISCONNECTED (a failed attempt or a lost link):
\* esp_wifi_connect(); the event group is not touched
WifiDisconnected ==
    /\ wifi.link \in {"connecting", "up"}
    /\ wifi.disconnects < MaxDisconnects
    /\ wifi' = [wifi EXCEPT !.link = "connecting", !.connects = @ + 1,
                            !.disconnects = @ + 1]
    /\ UNCHANGED <<pc, lcdVars, fbVars, clock_set, tsync, cbVars>>

NextWifi ==
    \/ LcdSetDC("main")
    \/ LcdTransmit("main")
    \/ LcdSetRst("main")
    \/ LcdDelay("main")
    \/ MainWifiInit
    \/ WifiStaStart
    \/ WifiGotIpEvent
    \/ WifiDisconnected
    \/ MainWifiWait
    \/ SiAlloc
    \/ SiRequest
    \/ \E n \in ChunkLens \cup {http.body.len - http.recvd} : http_event_handler(n)
    \/ SiPerformReturn
    \/ SiParse
    \/ SiCleanup

SpecWifi == InitWifi /\ [][NextWifi]_vars

(* ------------------------------------------------------------------------ *)
(* fill_screen on its own: one call with any colour after lcd_init          *)
(* ------------------------------------------------------------------------ *)
InitFill ==
    /\ pc = [t \in Tasks |-> IF t = "main" THEN "fill" ELSE "off"]
    /\ ops = [t \in Tasks |-> <<>>]
    /\ ip = [t \in Tasks |-> 1]
    /\ ph = [t \in Tasks |-> 0]
    /\ \E c \in FillColors :
          fill = [t \in Tasks |-> IF t = "main" THEN FillEntry(c) ELSE NoFill]
    /\ color_buf = 0
    /\ dc = 0
    /\ rst = 1
    /\ wire = [k |-> "cmd", dc |-> 0, v |-> <<41>>]
    /\ tx = [t \in Tasks |-> <<>>]
    /\ InitRest

FillReturnAlone ==
    /\ pc["main"] = "fill" /\ fill["main"].at = "ret"
    /\ pc' = [pc EXCEPT !["main"] = "done"]
    /\ fill' = [fill EXCEPT !["main"] = NoFill]
    /\ UNCHANGED <<ops, ip, ph, color_buf, dc, rst, wire, tx, fbVars, bootVars, cbVars>>

NextFill ==
    \/ FillBuf("main")
    \/ FillBand("main")
    \/ LcdSetDC("main")
    \/ LcdTransmit("main")
    \/ FillDataMode("main")
    \/ FillChunk("main")
    \/ FillNextBand("main")
    \/ FillReturnAlone

SpecFill == InitFill /\ [][NextFill]_vars

(* ------------------------------------------------------------------------ *)
(* The colour conversion of fill_screen, for every uint16_t colour           *)
(* ------------------------------------------------------------------------ *)
Colors16 == 0..(2^16 - 1)

InitSwap ==
    /\ pc = [t \in Tasks |-> IF t = "main" THEN "fill" ELSE "off"]
    /\ ops = [t \in Tasks |-> <<>>]
    /\ ip = [t \in Tasks |-> 1]
    /\ ph = [t \in Tasks |-> 0]
    /\ \E c \in Colors16 :
          fill = [t \in Tasks |-> IF t = "main" THEN FillEntry(c) ELSE NoFill]
    /\ color_buf = 0
    /\ dc = 0
    /\ rst = 1
    /\ wire = [k |-> "cmd", dc |-> 0, v |-> <<41>>]
    /\ tx = [t \in Tasks |-> <<>>]
    /\ InitRest

\* fill_screen up to the end of the loop that fills color_buf
NextSwap == FillBuf("main")

SpecSwap == InitSwap /\ [][NextSwap]_vars

(* ------------------------------------------------------------------------ *)
(* fill_screen on a bus whose transactions can fail                          *)
(* ------------------------------------------------------------------------ *)
\* how many transactions of one fill are let fail
MaxFailures == 1

IsFailed(e) == e.k = "failed"
Failures(log) == Len(SelectSeq(log, IsFailed))

\* lcd_cmd / lcd_data when spi_device_transmit returns an error: the value is not
\* looked at and the function returns as ever
LcdTransmitFails(t) ==
    /\ InOps(t) /\ ph[t] = 1
    /\ Failures(tx[t]) < MaxFailures
    /\ tx' = [tx EXCEPT ![t] = Append(@, [k |-> "failed", v |-> CurOp(t).v,
                                          off |-> 0, n |-> Len(CurOp(t).v)])]
    /\ ip' = [ip EXCEPT ![t] = @ + 1]
    /\ ph' = [ph EXCEPT ![t] = 0]
    /\ UNCHANGED <<pc, ops, fill, color_buf, dc, rst, wire, fbVars, bootVars, cbVars>>

\* one turn of while (sent < pixels_to_send) when spi_device_transmit returns an
\* error: the value is not looked at, sent += chunk_size
FillChunkFails(t) ==
    /\ fill[t].at = "chunks"
    /\ fill[t].sent < fill[t].pixels_to_send
    /\ Failures(tx[t]) < MaxFailures
    /\ LET n == chunk_size(fill[t].pixels_to_send, fill[t].sent) IN
        /\ tx' = [tx EXCEPT ![t] = Append(@, [k |-> "failed", v |-> <<>>,
                                              off |-> fill[t].sent, n |-> n])]
        /\ fill' = [fill EXCEPT ![t].sent = @ + n]
    /\ UNCHANGED <<pc, ops, ip, ph, color_buf, dc, rst, wire, fbVars, bootVars, cbVars>>

NextFillFault ==
    \/ FillBuf("main")
    \/ FillBand("main")
    \/ LcdSetDC("main")
    \/ LcdTransmit("main")
    \/ LcdTransmitFails("main")
    \/ FillDataMode("main")
    \/ FillChunk("main")
    \/ FillChunkFails("main")
    \/ FillNextBand("main")
    \/ FillReturnAlone

SpecFillFault == InitFill /\ [][NextFillFault]_vars

(* ------------------------------------------------------------------------ *)
(* firebase_sign_in on its own: call after call, with tokens of any length   *)
(* ------------------------------------------------------------------------ *)
\* bodies whose idToken is short, just fits, is one byte too long, is far too long,
\* and a body that fills the accumulator to its last free byte
SignInBodies ==
    Bodies \cup
    {[kind |-> "idToken", len |-> 300, tok |-> [src |-> "jwtS", len |-> 100]],
     [kind |-> "idToken", len |-> 2300, tok |-> [src |-> "jwtB", len |-> 2047]],
     [kind |-> "idToken", len |-> 2300, tok |-> [src |-> "jwtC", len |-> 2048]],
     [kind |-> "idToken", len |-> 3500, tok |-> [src |-> "jwtL", len |-> 3000]],
     [kind |-> "idToken", len |-> 4095, tok |-> [src |-> "jwtS", len |-> 100]]}

InitSignIn ==
    /\ pc = [t \in Tasks |-> IF t = "main" THEN "sign_in" ELSE "off"]
    /\ ops = [t \in Tasks |-> <<>>]
    /\ ip = [t \in Tasks |-> 1]
    /\ ph = [t \in Tasks |-> 0]
    /\ fill = [t \in Tasks |-> NoFill]
    /\ color_buf = 0
    /\ dc = 0
    /\ rst = 1
    /\ wire = [k |-> "cmd", dc |-> 0, v |-> <<41>>]
    /\ tx = [t \in Tasks |-> <<>>]
    /\ id_token = EmptyStr
    /\ response_buffer = NULL
    /\ response_len = 0
    /\ http = NoHttp
    /\ si = NoSignIn
    /\ wifi = [started |-> TRUE, connected_bit |-> TRUE]
    /\ clock_set = FALSE
    /\ tsync = [sntp |-> FALSE, retry |-> 0, tm_set |-> FALSE, checks |-> 0,
                        log |-> "none"]
    /\ ev = NoEvent
    /\ cb = NoCb
    /\ evlog = <<>>
    /\ up = NoUpload

\* esp_http_client_perform starts: the request goes out, the server answers
SiRequestAny ==
    /\ pc["main"] = "si_request"
    /\ \E status \in HttpStatuses, body \in SignInBodies :
          http' = [active |-> TRUE, status |-> status, body |-> body,
                   recvd |-> 0, overflow |-> FALSE, wrote_to |-> 0]
    /\ pc' = [pc EXCEPT !["main"] = "si_perform"]
    /\ UNCHANGED <<id_token, response_buffer, response_len, si, lcdVars, bootVars, cbVars>>

\* firebase_sign_in has returned and is called again
SignInAgain ==
    /\ pc["main"] = "si_ret"
    /\ pc' = [pc EXCEPT !["main"] = "sign_in"]
    /\ si' = NoSignIn
    /\ http' = NoHttp
    /\ UNCHANGED <<id_token, response_buffer, response_len, lcdVars, bootVars, cbVars>>

NextSignIn ==
    \/ SiAlloc
    \/ SiRequestAny
    \/ \E n \in ChunkLens \cup {http.body.len - http.recvd} : http_event_handler(n)
    \/ SiPerformReturn
    \/ SiParse
    \/ SiCleanup
    \/ SignInAgain

SpecSignIn == InitSignIn /\ [][NextSignIn]_vars

(* ------------------------------------------------------------------------ *)
(* The scanner task on its own, after app_main has ended: event after event  *)
(* ------------------------------------------------------------------------ *)
\* the stored token at the end of start-up: none, or the one the sign-in stored
BootTokens == {EmptyStr, Str("jwtA", 900)}

InitEvents ==
    /\ pc = [t \in Tasks |-> IF t = "main" THEN "done" ELSE "idle"]
    /\ ops = [t \in Tasks |-> <<>>]
    /\ ip = [t \in Tasks |-> 1]
    /\ ph = [t \in Tasks |-> 0]
    /\ fill = [t \in Tasks |-> NoFill]
    /\ color_buf = color_swapped(get_color_for_card(COLOR_WAITING))
    /\ dc = 1
    /\ rst = 1
    /\ wire = [k |-> "pix", dc |-> 1, v |-> <<color_swapped(get_color_for_card(COLOR_WAITING))>>]
    /\ tx = [t \in Tasks |-> <<>>]
    /\ id_token \in BootTokens
    /\ response_buffer = NULL
    /\ response_len = 0
    /\ http = NoHttp
    /\ si = NoSignIn
    /\ wifi = [started |-> TRUE, connected_bit |-> TRUE]
    /\ clock_set \in BOOLEAN
    /\ tsync = [sntp |-> TRUE, retry |-> 0, tm_set |-> FALSE, checks |-> 0,
                        log |-> "none"]
    /\ ev = NoEvent
    /\ cb = NoCb
    /\ evlog = <<>>
    /\ up = NoUpload

\* mutant: the upload's result is checked and a failure ends the task
CbReturnLogged_abort_on_failure ==
    /\ pc["rc522"] = "cb_ret"
    /\ ev' = NoEvent
    /\ cb' = NoCb
    /\ evlog' = <<>>
    /\ up' = [up EXCEPT !.calls = 0]
    /\ tx' = [tx EXCEPT !["rc522"] = <<>>]
    /\ pc' = [pc EXCEPT !["rc522"] = IF up.ret \in {"none", ESP_OK} THEN "idle" ELSE "off"]
    /\ UNCHANGED <<ops, ip, ph, fill, color_buf, dc, rst, wire, fbVars, bootVars>>

\* on_picc_state_changed has returned, whatever send_rfid_log_to_firebase returned;
\* the scanner task polls again (the outcome of the latest upload stays on record)
CbReturnLogged ==
    /\ pc["rc522"] = "cb_ret"
    /\ ev' = NoEvent
    /\ cb' = NoCb
    /\ evlog' = <<>>
    /\ up' = [up EXCEPT !.calls = 0]
    /\ tx' = [tx EXCEPT !["rc522"] = <<>>]
    /\ pc' = [pc EXCEPT !["rc522"] = "idle"]
    /\ UNCHANGED <<ops, ip, ph, fill, color_buf, dc, rst, wire, fbVars, bootVars>>

\* the steps of the callback, which the scanner task runs to the end once called
CallbackStep ==
    \/ CbState
    \/ CbClassify
    \/ LcdStep("rc522")
    \/ FillStep("rc522")
    \/ CbFillReturn
    \/ CbDwell
    \/ CbTime
    \/ UploadCall("rc522")
    \/ UploadPerform("rc522")
    \/ CbReturnLogged

NextEvents ==
    \/ \E e \in Events : Deliver(e)
    \/ CbState
    \/ CbClassify
    \/ LcdSetDC("rc522")
    \/ LcdTransmit("rc522")
    \/ FillBuf("rc522")
    \/ FillBand("rc522")
    \/ FillDataMode("rc522")
    \/ FillChunk("rc522")
    \/ FillNextBand("rc522")
    \/ CbFillReturn
    \/ CbDwell
    \/ CbTime
    \/ UploadCall("rc522")
    \/ UploadPerform("rc522")
    \/ CbReturnLogged

\* the scanner task is scheduled again and again, and every blocking call of the
\* callback (bus transfer, delay, HTTP exchange with its timeout) returns
SpecEvents == InitEvents /\ [][NextEvents]_vars /\ WF_vars(CallbackStep)

(* ------------------------------------------------------------------------ *)
(* Properties                                                                *)
(* ------------------------------------------------------------------------ *)
IsPrefix(s, t) == Len(s) <= Len(t) /\ \A i \in 1..Len(s) : s[i] = t[i]

RECURSIVE SumN(_)
SumN(runs) == IF runs = <<>> THEN 0 ELSE Head(runs).n + SumN(Tail(runs))

IsPix(e) == e.k = "pix"
PixRuns(log) == SelectSeq(log, IsPix)

\* the address window a 4-byte parameter block sets: two big-endian 16-bit bounds
WinLo(v) == v[1] * 256 + v[2]
WinHi(v) == v[3] * 256 + v[4]

\* the pixel runs of a transaction log, each with the column and row window that
\* the controller had been given when the run was sent
RECURSIVE RunsFrom(_, _, _, _)
RunsFrom(log, i, col, row) ==
    IF i > Len(log) THEN <<>>
    ELSE IF log[i].k = "data" /\ i > 1 /\ log[i - 1].k = "cmd" /\ log[i - 1].v = <<42>>
         THEN RunsFrom(log, i + 1, log[i].v, row)
    ELSE IF log[i].k = "data" /\ i > 1 /\ log[i - 1].k = "cmd" /\ log[i - 1].v = <<43>>
         THEN RunsFrom(log, i + 1, col, log[i].v)
    ELSE IF log[i].k = "pix"
         THEN <<[x0 |-> WinLo(col), x1 |-> WinHi(col), y0 |-> WinLo(row), y1 |-> WinHi(row),
                 off |-> log[i].off, n |-> log[i].n]>> \o RunsFrom(log, i + 1, col, row)
    ELSE RunsFrom(log, i + 1, col, row)

WindowRuns(log) == RunsFrom(log, 1, <<0, 0, 0, 0>>, <<0, 0, 0, 0>>)

\* whether run r writes display pixel (x, y): the controller fills its window row by row
RunWrites(r, x, y) ==
    /\ r.x0 <= x /\ x <= r.x1 /\ r.y0 <= y /\ y <= r.y1
    /\ LET p == (y - r.y0) * (r.x1 - r.x0 + 1) + (x - r.x0) IN r.off <= p /\ p < r.off + r.n

TimesWritten(runs, x, y) == Cardinality({i \in 1..Len(runs) : RunWrites(runs[i], x, y)})

\* C1: in a fill of the whole screen with any colour, each pixel run sent holds at
\* most 1024 pixels, starts where the previous run of its band ended (at 0 for the
\* first run of a band), and when the fill has returned the runs hold
\* LCD_H_RES * LCD_V_RES pixels in all and every pixel of the screen was written by
\* exactly one run.
C1_FillChunksPartitionScreen ==
    LET log == tx["main"] IN
        /\ \A i \in 1..Len(log) :
              log[i].k = "pix" =>
                  /\ 1 <= log[i].n /\ log[i].n <= 1024
                  /\ log[i].off = IF i > 1 /\ log[i - 1].k = "pix"
                                  THEN log[i - 1].off + log[i - 1].n ELSE 0
        /\ pc["main"] = "done" =>
              /\ SumN(PixRuns(log)) = LCD_H_RES * LCD_V_RES
              /\ LET runs == WindowRuns(log) IN
                    \A x \in 0..(LCD_H_RES - 1) : \A y \in 0..(LCD_V_RES - 1) :
                        TimesWritten(runs, x, y) = 1

C1_Witness ==
    /\ pc["main"] = "done"
    /\ Len(PixRuns(tx["main"])) = 20
    /\ color_buf = color_swapped(4660)

\* C2: a call of send_rfid_log_to_firebase made while the token is empty returns
\* ESP_FAIL and performs no HTTP exchange, whatever the uid and the timestamp.
C2_UploadWithoutTokenFailsFast ==
    (up.calls > 0 /\ strlen(id_token) = 0) =>
        /\ up.ret = ESP_FAIL
        /\ up.net = 0
        /\ pc["rc522"] # "up_perform"

C2_Witness ==
    /\ pc["rc522"] = "cb_ret"
    /\ up.calls = 1 /\ strlen(up.token) = 0 /\ up.ret = ESP_FAIL /\ up.net = 0
    /\ up.uid # <<>> /\ up.timestamp # ""

\* what the sign-in exchange was, seen from outside, when firebase_sign_in returns
TransportFailed == si.err = ESP_FAIL
StatusNot2xx == ~(200 <= http.status /\ http.status <= 299)
BodyNotJSON == http.body.kind = "notJSON"
NoStringIdToken == http.body.kind \in {"noIdToken", "idTokenNotString"}
SignInReturned == pc["main"] = "si_ret" /\ si.ret # ESP_ERR_NO_MEM

\* C3: firebase_sign_in returns a failure whenever the transport failed, the status
\* is not 2xx, the body is not valid JSON or it has no string idToken.
C3_SignInFailsOnBadResponse ==
    (SignInReturned /\ (TransportFailed \/ StatusNot2xx \/ BodyNotJSON \/ NoStringIdToken))
        => si.ret # ESP_OK

\* C4: a sign-in that fails (transport failure, non-2xx status, malformed JSON or
\* missing idToken) leaves the empty token empty, whatever the body holds.
C4_FailedSignInStoresNoToken ==
    (SignInReturned /\ (TransportFailed \/ StatusNot2xx \/ BodyNotJSON \/ NoStringIdToken))
        => strlen(id_token) = 0

\* C5: whenever the event handler is given a chunk of the response, the accumulator
\* length stays within RESPONSE_BUFFER_SIZE, the chunk is either appended whole or
\* not at all, nothing is written past the end of the buffer, and a chunk that does
\* not fit leaves buffer and length as they were, is flagged, and the exchange goes on.
C5_AccumulatorBounded ==
    [][ (http'.recvd > http.recvd) =>
          LET n == http'.recvd - http.recvd IN
            /\ response_len <= RESPONSE_BUFFER_SIZE
            /\ response_len' <= RESPONSE_BUFFER_SIZE
            /\ response_len' \in {response_len, response_len + n}
            /\ http'.wrote_to <= RESPONSE_BUFFER_SIZE
            /\ SegsLen(response_buffer') = response_len'
            /\ (response_len + n > RESPONSE_BUFFER_SIZE =>
                  /\ response_len' = response_len
                  /\ response_buffer' = response_buffer
                  /\ http'.overflow
                  /\ http'.active
                  /\ pc' = pc) ]_vars

C5_Witness ==
    /\ pc["main"] = "si_perform"
    /\ http.overflow
    /\ response_len = 512
    /\ http.recvd = 512 + 4096

\* the class colours the callback has started a fill with
ShownClassColors == {evlog[i].c : i \in {j \in 1..Len(evlog) :
                                          evlog[j].k = "fill" /\ evlog[j].c # RGB565_GRAY}}

ExpectedClassColors(uid) ==
    IF uid = <<153, 182, 179, 2>> THEN {RGB565_GREEN}
    ELSE IF uid = <<37, 15, 197, 1>> THEN {RGB565_RED}
    ELSE {}

EventActive == ev.state = "ACTIVE"
CallbackReturned == pc["rc522"] = "cb_ret"

\* C6: the feedback of a processed event is ClassA's colour exactly for the 4-byte
\* credential equal to CARD_UID, ClassB's (another colour) exactly for the one equal
\* to CHIP_UID, and none (Neutral) for every other credential, of whatever length,
\* and it is so after any earlier events.
C6_ClassificationExact ==
    /\ RGB565_GREEN # RGB565_RED
    /\ EventActive => ShownClassColors \subseteq ExpectedClassColors(ev.uid)
    /\ (EventActive /\ CallbackReturned) => ShownClassColors = ExpectedClassColors(ev.uid)

C6_Witness ==
    /\ CallbackReturned /\ EventActive
    /\ ev.uid = CHIP_UID
    /\ ShownClassColors = {RGB565_RED}

IsUpload(e) == e.k = "upload"
Uploads == SelectSeq(evlog, IsUpload)

\* C7: a processed event makes exactly one upload call, with the credential's string
\* form as uid, whatever its length, class and the upload's outcome, and at most one
\* HTTP exchange is performed for it.
C7_OneUploadPerEvent ==
    /\ Len(Uploads) <= 1 /\ up.calls <= 1 /\ up.net <= 1
    /\ (EventActive /\ CallbackReturned) =>
          /\ Len(Uploads) = 1 /\ up.calls = 1
          /\ Uploads[1].s = up.uid
          /\ Len(up.uid) = 3 * Len(ev.uid) - 1
          /\ (ev.uid = <<153, 182, 179, 2>> =>
                up.uid = <<"9", "9", " ", "B", "6", " ", "B", "3", " ", "0", "2">>)
          /\ (ev.uid = <<1, 2, 3, 4>> =>
                up.uid = <<"0", "1", " ", "0", "2", " ", "0", "3", " ", "0", "4">>)
          /\ up.ret \in {ESP_OK, ESP_FAIL, ESP_ERR_NO_MEM}

C7_Witness ==
    /\ CallbackReturned /\ EventActive
    /\ Len(ev.uid) = 7
    /\ up.calls = 1 /\ up.ret = ESP_FAIL /\ up.net = 1

\* C8: a callback for a credential that is not active returns at once: no fill, no
\* dwell, no upload, and the token, the accumulator and the display stay as they were.
C8_InactiveIgnored ==
    [][ (pc["rc522"] = "cb" /\ ev.state # "ACTIVE" /\ pc'["rc522"] # "cb") =>
          /\ pc'["rc522"] = "cb_ret"
          /\ evlog' = <<>> /\ up' = NoUpload
          /\ fill'["rc522"] = NoFill
          /\ UNCHANGED <<id_token, response_buffer, response_len, lcdVars>> ]_vars

C8_Witness ==
    /\ CallbackReturned
    /\ ev.state = "HALT"
    /\ evlog = <<>>

Step(k, c, s) == [k |-> k, c |-> c, s |-> s]

ExpectedPipeline(uid, color) ==
    << Step("fill", color, <<>>), Step("filled", color, <<>>),
       Step("dwell", 3000, <<>>),
       Step("fill", RGB565_GRAY, <<>>), Step("filled", RGB565_GRAY, <<>>),
       Step("upload", 0, rc522_picc_uid_to_str(uid)) >>

\* C9: for an active event with CARD_UID or CHIP_UID the callback does, in this order
\* and once each: the fill with the class's colour, the 3000 ms dwell, the fill with
\* the neutral colour, the upload call; the upload is called after the neutral fill
\* has returned.
C9_AllowListedPipelineOrder ==
    (EventActive /\ ev.uid \in {CARD_UID, CHIP_UID}) =>
        LET want == ExpectedPipeline(ev.uid,
                        IF ev.uid = CARD_UID THEN RGB565_GREEN ELSE RGB565_RED) IN
            /\ IsPrefix(evlog, want)
            /\ CallbackReturned => evlog = want
            /\ pc["rc522"] \in {"cb_upload", "up_perform"} => Len(evlog) >= 5

C9_Witness ==
    /\ CallbackReturned /\ EventActive
    /\ ev.uid = CARD_UID
    /\ Len(evlog) = 6
    /\ evlog[1].c = RGB565_GREEN

\* C10: for an active event with a 4-byte credential that is neither CARD_UID nor
\* CHIP_UID the callback never starts a fill with a colour other than the neutral
\* one, and it makes the upload call once, with this credential's string.
C10_UnmatchedStaysNeutral ==
    (EventActive /\ Len(ev.uid) = 4 /\ ev.uid \notin {CARD_UID, CHIP_UID}) =>
        /\ \A i \in 1..Len(evlog) : evlog[i].k \in {"fill", "filled"} => evlog[i].c = RGB565_GRAY
        /\ fill["rc522"].at # "none" => fill["rc522"].color = RGB565_GRAY
        /\ CallbackReturned =>
              /\ Len(Uploads) = 1 /\ up.calls = 1
              /\ Uploads[1].s = rc522_picc_uid_to_str(ev.uid)

C10_Witness ==
    /\ CallbackReturned /\ EventActive
    /\ ev.uid = <<1, 2, 3, 4>>
    /\ up.calls = 1
    /\ up.uid = <<"0", "1", " ", "0", "2", " ", "0", "3", " ", "0", "4">>

\* what the callback does for an active event up to and with its upload call
FullPipeline(uid) ==
    IF Len(uid) = 4
    THEN IF uid = <<153, 182, 179, 2>> THEN ExpectedPipeline(uid, RGB565_GREEN)
         ELSE IF uid = <<37, 15, 197, 1>> THEN ExpectedPipeline(uid, RGB565_RED)
         ELSE << Step("dwell", 3000, <<>>),
                 Step("fill", RGB565_GRAY, <<>>), Step("filled", RGB565_GRAY, <<>>),
                 Step("upload", 0, rc522_picc_uid_to_str(uid)) >>
    ELSE << Step("upload", 0, rc522_picc_uid_to_str(uid)) >>

InUpload == pc["rc522"] \in {"cb_upload", "up_perform", "cb_ret"}
Idle == pc["rc522"] = "idle"

\* C11: whatever the latest upload returned (no token, no memory, transport failure,
\* non-2xx status, success), the callback returns and the scanner task is idle again;
\* an active event delivered after it reaches its own upload call, and at that call
\* the callback has done the whole pipeline of its credential, nothing left out.
C11_UploadFailureNeverStalls ==
    /\ InUpload ~> Idle
    /\ (pc["rc522"] = "cb" /\ EventActive) ~> (CallbackReturned /\ up.calls = 1)
    /\ [][ (pc["rc522"] = "cb_ret" /\ pc'["rc522"] # "cb_ret") => pc'["rc522"] = "idle" ]_vars
    /\ [][ (pc["rc522"] = "cb_upload" /\ pc'["rc522"] # "cb_upload") =>
              /\ evlog' = FullPipeline(ev.uid)
              /\ up'.calls = 1 ]_vars

\* an allow-listed credential is at its upload call after an upload that failed in
\* the transport
C11_Witness ==
    /\ pc["rc522"] = "cb_upload"
    /\ up.calls = 0 /\ up.ret = ESP_FAIL /\ up.net = 1
    /\ ev.uid = CARD_UID
    /\ Len(evlog) = 5

\* C12: if a bus transaction of a fill fails, the fill issues no further transaction
\* after the failed one and does not come back to its caller the way a fill without
\* a failure does.
C12_FailedTransactionStopsFill ==
    LET log == tx["main"] IN
        /\ \A i \in 1..Len(log) : log[i].k = "failed" => i = Len(log)
        /\ pc["main"] = "done" => Failures(log) = 0

\* C13: every command byte goes over the bus with the data/command line at command
\* level and every parameter block and pixel chunk with the line at data level,
\* during st7735_init and during every fill.
C13_DCLevelMatchesTransaction ==
    /\ wire.k = "cmd" => wire.dc = 0
    /\ wire.k \in {"data", "pix"} => wire.dc = 1

\* whether e can be the i-th thing lcd_init does to the controller
InitStepOK(i, e) ==
    CASE i = 1 -> e.k = "rst" /\ e.v = <<0>>
      [] i = 2 -> e.k = "delay" /\ e.v[1] >= 100
      [] i = 3 -> e.k = "rst" /\ e.v = <<1>>
      [] i = 4 -> e.k = "delay" /\ e.v[1] >= 100
      [] i = 5 -> e.k = "cmd" /\ e.v = <<1>>
      [] i = 6 -> e.k = "delay" /\ e.v[1] >= 150
      [] i = 7 -> e.k = "cmd" /\ e.v = <<17>>
      [] i = 8 -> e.k = "delay" /\ e.v[1] >= 150
      [] i = 9 -> e.k = "cmd" /\ e.v = <<177>>
      [] i = 10 -> e.k = "data"
      [] i = 11 -> e.k = "cmd" /\ e.v = <<182>>
      [] i = 12 -> e.k = "data"
      [] i = 13 -> e.k = "cmd" /\ e.v = <<58>>
      [] i = 14 -> e.k = "data" /\ e.v = <<85>>
      [] i = 15 -> e.k = "cmd" /\ e.v = <<42>>
      [] i = 16 -> e.k = "data" /\ Len(e.v) = 4
      [] i = 17 -> e.k = "cmd" /\ e.v = <<43>>
      [] i = 18 -> e.k = "data" /\ Len(e.v) = 4
      [] i = 19 -> e.k = "cmd" /\ e.v = <<19>>
      [] i = 20 -> e.k = "cmd" /\ e.v = <<41>>
      [] OTHER -> FALSE

BeforeFirstFill == pc["main"] \notin {"fill", "done"}

\* C14: what lcd_init does to the controller is, in this order and once each: reset
\* low, >= 100 ms, reset high, >= 100 ms, software reset (01), >= 150 ms, sleep out
\* (11), >= 150 ms, frame rate (B1) with its parameters, display function (B6) with
\* its parameter, pixel format (3A) with 55 = 16 bits/pixel, column window (2A), row
\* window (2B), normal display on (13), display on (29); all of it is done when
\* lcd_init returns.
C14_InitSequenceInOrder ==
    BeforeFirstFill =>
        LET log == tx["main"] IN
            /\ \A i \in 1..Len(log) : InitStepOK(i, log[i])
            /\ pc["main"] # "lcd_init" => Len(log) = 20

C14_Witness ==
    /\ pc["main"] = "wifi_wait"
    /\ Len(tx["main"]) = 20
    /\ tx["main"][20].v = <<41>>
    /\ rst = 1

FillRunning(t) == fill[t].at # "none"

\* C15: a fill_screen call, of app_main or of the callback, starts only after lcd_init
\* has returned: the reset line is high, all 20 steps of st7735_init with display-on
\* (29) last have been done, and the callback can be called only from then on.
C15_FillOnlyAfterLcdInit ==
    /\ [](\A t \in Tasks : (FillRunning(t) \/ pc["rc522"] # "off") =>
              /\ pc["main"] \in {"fill", "done"}
              /\ rst = 1)
    /\ [][ \A t \in Tasks : (~FillRunning(t) /\ fill'[t].at # "none") =>
              /\ pc["main"] \in {"rfid_init", "fill", "done"}
              /\ pc["main"] = "rfid_init" =>
                    /\ Len(tx["main"]) = 20
                    /\ tx["main"][20].k = "cmd" /\ tx["main"][20].v = <<41>> ]_vars

C15_Witness ==
    /\ pc["rc522"] = "cb_fill_class"
    /\ fill["rc522"].at = "chunks"
    /\ pc["main"] = "fill"
    /\ fill["main"].at = "buf"

HighByte(x) == x \div 256
LowByte(x) == x % 256

\* C16: the value fill_screen puts in the pixel buffer for colour c is a 16-bit value
\* whose high byte is c's low byte and whose low byte is c's high byte, and converting
\* that value again gives c.
C16_WireOrderIsByteSwap ==
    fill["main"].at = "band" =>
        LET c == fill["main"].color IN
            /\ color_buf \in 0..65535
            /\ HighByte(color_buf) = LowByte(c)
            /\ LowByte(color_buf) = HighByte(c)
            /\ color_swapped(color_buf) = c

C16_Witness ==
    /\ fill["main"].at = "band"
    /\ fill["main"].color = 43981
    /\ color_buf = 52651

BeforeTokenCopy ==
    pc["main"] \in {"lcd_init", "wifi_wait", "sign_in", "si_request", "si_perform", "si_parse"}

\* C17: the token is empty from process start until firebase_sign_in copies one; it
\* changes only in the step of firebase_sign_in that has parsed a response with a
\* string idToken, to that string cut to the buffer; no step of an upload or of the
\* callback changes it, so it stays what the start-up sign-in left.
C17_TokenWrittenOnlyBySignIn ==
    /\ [](BeforeTokenCopy => id_token = EmptyStr)
    /\ [][ id_token' # id_token =>
              /\ pc["main"] = "si_parse" /\ pc'["main"] = "si_cleanup"
              /\ si.err = ESP_OK
              /\ http.body.kind = "idToken"
              /\ id_token' = strncpy_token(http.body.tok) ]_vars
    /\ [][ pc["main"] \notin {"si_parse"} => id_token' = id_token ]_vars

\* an upload has been made with the token of the start-up sign-in, and it is still there
C17_Witness ==
    /\ pc["rc522"] = "cb_ret"
    /\ up.net = 1 /\ up.status = 401
    /\ up.token = Str("jwtA", 900)
    /\ id_token = Str("jwtA", 900)

\* the first n bytes of string s, all of s when it has no more than n
Prefix(s, n) == IF s.len > n THEN [src |-> s.src, len |-> n] ELSE s

\* the response has come whole, fits the accumulator and has a string idToken
GotIdToken ==
    /\ si.err = ESP_OK
    /\ http.body.kind = "idToken"
    /\ http.body.len < RESPONSE_BUFFER_SIZE

\* C18: the stored token is always a string of fewer than 2048 bytes; a sign-in that
\* got a string idToken leaves, whatever token was stored before, the idToken's
\* first 2047 bytes when it is longer than that and all of it otherwise, and returns
\* ESP_OK in both cases.
C18_TokenTruncatedToBuffer ==
    /\ [](strlen(id_token) < 2048)
    /\ [][ (pc["main"] = "si_parse" /\ pc'["main"] # "si_parse" /\ GotIdToken) =>
              id_token' = Prefix(http.body.tok, 2047) ]_vars
    /\ []((pc["main"] = "si_ret" /\ GotIdToken) =>
              /\ id_token = Prefix(http.body.tok, 2047)
              /\ si.ret = ESP_OK)

\* a sign-in whose idToken has 3000 bytes has returned
C18_Witness ==
    /\ pc["main"] = "si_ret"
    /\ si.ret = ESP_OK
    /\ http.body.tok = Str("jwtL", 3000)
    /\ id_token = Str("jwtL", 2047)

\* C19: the callback is entered for an event only when the scanner task is idle, that
\* is when the callback has returned from the event before: nothing of an earlier
\* pipeline (fill, bus transfer, dwell, upload) is under way, and while a pipeline
\* runs the event it works on stays the same and the accumulator is not in use.
C19_OnePipelineInFlight ==
    /\ [][ (ev' # ev /\ ev' # NoEvent) =>
              /\ Idle /\ ev = NoEvent
              /\ evlog = <<>> /\ up.calls = 0
              /\ ~FillRunning("rc522") /\ ~InOps("rc522") ]_vars
    /\ [][ ~Idle => (ev' = ev \/ pc'["rc522"] = "idle") ]_vars
    /\ [](~Idle => (response_buffer = NULL /\ response_len = 0))

\* a second event is in its upload after the first one's upload has returned
C19_Witness ==
    /\ pc["rc522"] = "cb_upload"
    /\ up.calls = 0 /\ up.ret = ESP_OK /\ up.uid = rc522_picc_uid_to_str(CARD_UID)
    /\ ev.uid = CHIP_UID

UploadReturned == CallbackReturned /\ up.calls = 1

\* how a call of send_rfid_log_to_firebase that has returned went
UploadNoToken == strlen(up.token) = 0 /\ up.net = 0
UploadNoMemory == strlen(up.token) > 0 /\ up.net = 0
UploadTransportFailed == up.net = 1 /\ up.status = 0
UploadAnswered == up.net = 1 /\ up.status # 0

NoExchange == pc["main"] \in {"sign_in", "si_ret"}

\* C21: when firebase_sign_in is about to start its exchange the accumulator is a
\* fresh buffer with nothing in it and length 0; while the exchange runs the length is
\* the number of bytes accumulated from this exchange's body; and whenever no
\* sign-in is under way (before a call, after its return on any path) there is no
\* buffer and the length is 0.
C21_AccumulatorResetAndReleased ==
    /\ NoExchange => (response_buffer = NULL /\ response_len = 0)
    /\ pc["main"] = "si_request" => (response_buffer = <<>> /\ response_len = 0)
    /\ pc["main"] \in {"si_perform", "si_parse", "si_cleanup"} =>
          /\ response_buffer # NULL
          /\ SegsLen(response_buffer) = response_len
          /\ response_len <= http.recvd
          /\ \A i \in 1..Len(response_buffer) :
                response_buffer[i].off + response_buffer[i].n <= http.body.len

\* a sign-in whose transport failed after part of the body had come has returned
C21_Witness ==
    /\ pc["main"] = "si_ret"
    /\ si.err = ESP_FAIL
    /\ http.recvd = 512
    /\ strlen(id_token) > 0
    /\ response_buffer = NULL /\ response_len = 0

\* C22: the fill_screen call of app_main and a fill_screen call of the callback are
\* never under way at the same time, so neither their bus transactions, nor their
\* changes of the data/command line, nor their writes to color_buf interleave.
C22_FillsNeverOverlap ==
    ~(FillRunning("main") /\ FillRunning("rc522"))

IsSignal(e) == e.k # "upload"
SignalSteps == SelectSeq(evlog, IsSignal)

\* the colour of the outcome of classifying uid
OutcomeColor(uid) ==
    IF uid = <<153, 182, 179, 2>> THEN RGB565_GREEN
    ELSE IF uid = <<37, 15, 197, 1>> THEN RGB565_RED
    ELSE RGB565_GRAY

AtOrAfterUpload == pc["rc522"] \in {"cb_upload", "up_perform", "cb_ret"}

\* C23 as claimed: for every active event, of any outcome and credential length, the
\* callback has, when it attempts the upload, filled the display with the outcome's
\* colour (the neutral one for Neutral), dwelt 3000 ms and filled with the neutral
\* colour, in this order.
C23_SignalingForEveryEvent ==
    (EventActive /\ AtOrAfterUpload) =>
        SignalSteps = << Step("fill", OutcomeColor(ev.uid), <<>>),
                         Step("filled", OutcomeColor(ev.uid), <<>>),
                         Step("dwell", 3000, <<>>),
                         Step("fill", RGB565_GRAY, <<>>),
                         Step("filled", RGB565_GRAY, <<>>) >>

\* C23 as amended: for an active event with a 4-byte credential the callback has,
\* when it attempts the upload, filled the display with the class colour if the
\* credential is allow-listed (no first fill if it is not), then dwelt 3000 ms, then
\* filled with the neutral colour; for a credential of another length it has made no
\* fill and no dwell.  In both cases the upload call comes after all of it.
C23_SignalingByLength ==
    (EventActive /\ AtOrAfterUpload) =>
        /\ (Len(ev.uid) = 4 /\ ev.uid \in {CARD_UID, CHIP_UID}) =>
              SignalSteps = << Step("fill", OutcomeColor(ev.uid), <<>>),
                               Step("filled", OutcomeColor(ev.uid), <<>>),
                               Step("dwell", 3000, <<>>),
                               Step("fill", RGB565_GRAY, <<>>),
                               Step("filled", RGB565_GRAY, <<>>) >>
        /\ (Len(ev.uid) = 4 /\ ev.uid \notin {CARD_UID, CHIP_UID}) =>
              SignalSteps = << Step("dwell", 3000, <<>>),
                               Step("fill", RGB565_GRAY, <<>>),
                               Step("filled", RGB565_GRAY, <<>>) >>
        /\ Len(ev.uid) # 4 => SignalSteps = <<>>
        /\ pc["rc522"] = "cb_upload" => evlog = SignalSteps
        /\ pc["rc522"] # "cb_upload" => evlog = Append(SignalSteps, evlog[Len(evlog)])

\* a 10-byte credential has been uploaded with no fill and no dwell
C23_Witness ==
    /\ CallbackReturned /\ EventActive
    /\ Len(ev.uid) = 10
    /\ Len(evlog) = 1 /\ evlog[1].k = "upload"
    /\ up.calls = 1

IsCmd(e, b) == e.k = "cmd" /\ e.v = <<b>>

\* whether entry i of a fill's transaction log is in its place in a band
InBandOrder(log, i) ==
    CASE IsCmd(log[i], 42) -> i = 1 \/ log[i - 1].k = "pix"
      [] IsCmd(log[i], 43) -> i > 2 /\ log[i - 1].k = "data" /\ IsCmd(log[i - 2], 42)
      [] IsCmd(log[i], 44) -> i > 2 /\ log[i - 1].k = "data" /\ IsCmd(log[i - 2], 43)
      [] log[i].k = "data" -> /\ i > 1
                              /\ IsCmd(log[i - 1], 42) \/ IsCmd(log[i - 1], 43)
                              /\ Len(log[i].v) = 4
      [] log[i].k = "pix" -> i > 1 /\ (IsCmd(log[i - 1], 44) \/ log[i - 1].k = "pix")
      [] OTHER -> FALSE

\* the row windows a log sets, in order
RECURSIVE RowWindows(_, _)
RowWindows(log, i) ==
    IF i > Len(log) THEN <<>>
    ELSE IF log[i].k = "data" /\ i > 1 /\ IsCmd(log[i - 1], 43)
         THEN <<[y0 |-> WinLo(log[i].v), y1 |-> WinHi(log[i].v)]>> \o RowWindows(log, i + 1)
    ELSE RowWindows(log, i + 1)

\* the pixels streamed into the band whose window starts at row y0
RECURSIVE BandPixels(_, _)
BandPixels(runs, y0) ==
    IF runs = <<>> THEN 0
    ELSE (IF Head(runs).y0 = y0 THEN Head(runs).n ELSE 0) + BandPixels(Tail(runs), y0)

\* C24: the transactions of a fill come band by band: column-window command (2A) and
\* its 4 bytes 0..127, row-window command (2B) and its 4 bytes, memory write (2C), then
\* pixel chunks only; the row windows are [y, y+h-1] with 1 <= h <= BUF_HEIGHT, the
\* first at row 0, each starting right after the one before, the last ending at row
\* LCD_V_RES - 1 when the fill returns; a band that is over has streamed
\* LCD_H_RES * h pixels, and every chunk lies within the LCD_H_RES * BUF_HEIGHT
\* pixels of color_buf.
C24_BandProtocol ==
    LET log == tx["main"]
        rows == RowWindows(log, 1)
        runs == WindowRuns(log)
    IN  /\ \A i \in 1..Len(log) : InBandOrder(log, i)
        /\ \A i \in 2..Len(log) :
              IsCmd(log[i - 1], 42) => log[i].v = <<0, 0, 0, 127>>
        /\ \A b \in 1..Len(rows) :
              /\ rows[b].y0 = IF b = 1 THEN 0 ELSE rows[b - 1].y1 + 1
              /\ rows[b].y0 <= rows[b].y1
              /\ rows[b].y1 - rows[b].y0 + 1 <= BUF_HEIGHT
              /\ BandPixels(runs, rows[b].y0) <= LCD_H_RES * (rows[b].y1 - rows[b].y0 + 1)
              /\ (b < Len(rows) \/ pc["main"] = "done") =>
                    BandPixels(runs, rows[b].y0) = LCD_H_RES * (rows[b].y1 - rows[b].y0 + 1)
        /\ \A i \in 1..Len(log) :
              log[i].k = "pix" => (0 <= log[i].off /\ log[i].off + log[i].n <= LCD_H_RES * BUF_HEIGHT)
        /\ pc["main"] = "done" =>
              (Len(rows) > 0 /\ rows[Len(rows)].y1 = LCD_V_RES - 1)

C24_Witness ==
    /\ pc["main"] = "done"
    /\ RowWindows(tx["main"], 1) =
          << [y0 |-> 0, y1 |-> 39], [y0 |-> 40, y1 |-> 79],
             [y0 |-> 80, y1 |-> 119], [y0 |-> 120, y1 |-> 159] >>
    /\ Len(tx["main"]) = 40

\* C25: at every point of a sign-in exchange the accumulated bytes are the first
\* response_len bytes of the body: once a chunk has been dropped for lack of room
\* nothing is appended behind the gap.
C25_AccumulatedIsPrefix ==
    (pc["main"] \in {"si_perform", "si_parse", "si_cleanup"} /\ response_buffer # NULL) =>
        \/ response_buffer = <<>>
        \/ /\ Len(response_buffer) = 1
           /\ response_buffer[1].off = 0
           /\ response_buffer[1].n = response_len

\* C26: throughout a sign-in exchange the accumulated length is at most
\* RESPONSE_BUFFER_SIZE - 1 and no byte at or behind index response_len has been
\* written since calloc zeroed the buffer, so the byte at index response_len is 0 and
\* lies inside the buffer when cJSON_Parse reads the text.
C26_AccumulatorTerminated ==
    (pc["main"] \in {"si_request", "si_perform", "si_parse"}) =>
        /\ response_buffer # NULL
        /\ 0 <= response_len /\ response_len <= 4096 - 1
        /\ http.wrote_to <= response_len
        /\ SegsLen(response_buffer) = response_len

\* the response has filled the buffer up to its last byte but one and is parsed
C26_Witness ==
    /\ pc["main"] = "si_parse"
    /\ si.err = ESP_OK
    /\ response_len = 4095
    /\ http.body.len = 4095

TimeSyncReturned == pc["main"] = "rfid_init"

\* C27: wait_for_time_sync, once entered, returns, whether SNTP ever sets the clock or
\* not; it waits and checks the clock at most 10 times; it logs the failure warning
\* exactly when its last check saw the clock unset, and the success message exactly
\* when a check saw the clock set.
C27_TimeSyncTerminates ==
    /\ (pc["main"] = "time_wait") ~> TimeSyncReturned
    /\ [](tsync.checks <= 10)
    /\ [](TimeSyncReturned =>
            /\ tsync.checks >= 1
            /\ tsync.log \in {"failed", "synchronized"}
            /\ tsync.log = "failed" <=> ~tsync.tm_set
            /\ tsync.log = "synchronized" <=> tsync.tm_set)
    /\ [][ tsync.tm_set => (tsync'.checks = tsync.checks \/ tsync'.checks = 0) ]_vars

\* the function has given up, and the clock was set only after its last check
C27_Witness ==
    /\ TimeSyncReturned
    /\ tsync.log = "failed"
    /\ tsync.checks = 9
    /\ clock_set

\* C28: whenever WIFI_CONNECTED_BIT is set the station has an IP address and has not
\* been disconnected since it got it; and every disconnect event is answered by one
\* more esp_wifi_connect call, however many there have been.
C28_ConnectedBitMeansReady ==
    /\ [](wifi.connected_bit => wifi.link = "up")
    /\ [][ wifi'.disconnects = wifi.disconnects + 1 =>
              wifi'.connects = wifi.connects + 1 ]_vars

=============================================================================
